---- MODULE Spec2Model ----
(***************************************************************************)
(* Model of the document ranking / classification pipeline of the          *)
(* directory analyzer backend:                                             *)
(*   app/services/document_analyzer.py   (scoring, main contract, ranking) *)
(*   app/services/ai_classifier.py       (oracle request with retries)     *)
(*                                                                         *)
(* Strings that the code inspects character by character (filenames and   *)
(* the indicator words searched in them) are sequences of one-character    *)
(* strings, so that lower() and the substring test `x in filename` are     *)
(* computed.  A key that a Python dict may lack is an optional value: the  *)
(* empty sequence when the key is absent, a one-element sequence holding   *)
(* the value when it is present.                                           *)
(***************************************************************************)
EXTENDS Integers, Sequences, FiniteSets, TLC

VARIABLES
    classifications,   \* the caller's list of classification dicts (mutated in place)
    main_contract,     \* last return value of identify_main_contract: <<>> is None,
                       \* <<i>> is the dict object classifications[i]
    ranked_documents,  \* last return value of rank_documents
    last_call,         \* which analyzer method returned last
    anthropic_max_retries,  \* settings.anthropic_max_retries
    pdf_files,         \* the filenames of the directory scan, in scan order
    file_index,        \* position in pdf_files of the document being processed
    failed_files,      \* failed_files of _process_pdf_files
    request,           \* the _make_api_request call of the current document
    run_pc,            \* where analyze_directory_complete stands
    run_result,        \* how analyze_directory_complete ended
    helper_call        \* a call of a helper on its own: its name, arguments and
                       \* return value

analyzerVars == <<classifications, main_contract, ranked_documents, last_call>>

runVars == <<anthropic_max_retries, pdf_files, file_index, failed_files, request,
             run_pc, run_result, helper_call>>

vars == <<analyzerVars, runVars>>

-----------------------------------------------------------------------------
(* Bounds of the model *)

MaxDocs == 3

MaxFiles == 2

MaxRetriesSetting == 2

\* longest list handed to rank_documents when ranks above 3 are looked at
MaxRankDocs == 4

\* most lines of an oracle response handed to _parse_classification_response
MaxLines == 3

\* longest list of the caller whose records are shared between calls
MaxSharedDocs == 2

\* largest max_retries argument of a direct call of _make_api_request
MaxRetriesArgument == 2

-----------------------------------------------------------------------------
(* str.lower() and the substring operator `in` *)

UpperChars == <<"A","B","C","D","E","F","G","H","I","J","K","L","M","N","O","P","Q","R","S","T","U","V","W","X","Y","Z">>

LowerChars == <<"a","b","c","d","e","f","g","h","i","j","k","l","m","n","o","p","q","r","s","t","u","v","w","x","y","z">>

LowerChar(c) ==
    IF \E i \in 1..Len(UpperChars) : UpperChars[i] = c
    THEN LowerChars[CHOOSE i \in 1..Len(UpperChars) : UpperChars[i] = c]
    ELSE c

RECURSIVE lower(_)
lower(s) == IF s = <<>> THEN <<>> ELSE <<LowerChar(Head(s))>> \o lower(Tail(s))

\* the list of the n items f[1], ..., f[n]
RECURSIVE ListOf(_, _)
ListOf(f, n) == IF n = 0 THEN <<>> ELSE Append(ListOf(f, n - 1), f[n])

\* sub in s
Contains(sub, s) ==
    \E i \in 0..(Len(s) - Len(sub)) : SubSeq(s, i + 1, i + Len(sub)) = sub

\* any(indicator in filename for indicator in indicators)
AnyIn(indicators, filename) ==
    \E k \in 1..Len(indicators) : Contains(indicators[k], filename)

-----------------------------------------------------------------------------
(* Indicator lists of score_document_importance and identify_main_contract *)

main_indicators ==
    << <<"e","x","e","c","u","t","e","d">>,
       <<"s","i","g","n","e","d">>,
       <<"f","i","n","a","l">>,
       <<"f","u","l","l","y"," ","e","x","e","c","u","t","e","d">> >>

clean_indicators ==
    << <<"c","l","e","a","n">>,
       <<"f","i","n","a","l"," ","c","o","p","y">>,
       <<"e","x","e","c","u","t","e","d"," ","c","o","p","y">> >>

version_patterns ==
    << [pattern |-> <<"r","3">>, points |-> 22],
       [pattern |-> <<"r","e","v","3">>, points |-> 22],
       [pattern |-> <<"r","e","v","i","s","i","o","n"," ","3">>, points |-> 22],
       [pattern |-> <<"r","2">>, points |-> 18],
       [pattern |-> <<"r","e","v","2">>, points |-> 18],
       [pattern |-> <<"r","e","v","i","s","i","o","n"," ","2">>, points |-> 18],
       [pattern |-> <<"r","1">>, points |-> 15],
       [pattern |-> <<"r","e","v","1">>, points |-> 15],
       [pattern |-> <<"r","e","v","i","s","i","o","n"," ","1">>, points |-> 15] >>

contract_indicators ==
    << <<"c","o","n","t","r","a","c","t">>,
       <<"a","g","r","e","e","m","e","n","t">>,
       <<"c","t","d","o","t">> >>

draft_indicators ==
    << <<"m","a","r","k","u","p">>,
       <<"m","a","r","k"," ","u","p">>,
       <<"d","r","a","f","t">>,
       <<"r","e","d","l","i","n","e">>,
       <<"c","o","m","m","e","n","t","s">> >>

strong_indicators ==
    << <<"e","x","e","c","u","t","e","d">>,
       <<"c","l","e","a","n">>,
       <<"f","i","n","a","l">>,
       <<"s","i","g","n","e","d">> >>

-----------------------------------------------------------------------------
(* The filenames of the model: a.pdf, Agreement_r2.pdf, Final.pdf, clean.pdf *)

Filenames ==
    { <<"a",".","p","d","f">>,
      <<"A","g","r","e","e","m","e","n","t","_","r","2",".","p","d","f">>,
      <<"F","i","n","a","l",".","p","d","f">>,
      <<"c","l","e","a","n",".","p","d","f">> }

-----------------------------------------------------------------------------
(* Python truthiness of the optional "error" value of a classification *)

Truthy(opt) == opt # <<>> /\ opt[1] # ""

-----------------------------------------------------------------------------
(* score_document_importance *)

importance_scores(importance) ==
    CASE importance = "CRITICAL" -> 100
      [] importance = "HIGH" -> 70
      [] importance = "MEDIUM" -> 40
      [] importance = "LOW" -> 20
      [] OTHER -> 40

type_scores(doc_type) ==
    CASE doc_type = "PRIMARY_CONTRACT" -> 50
      [] doc_type = "CHANGE_ORDER" -> 30
      [] doc_type = "AMENDMENT" -> 25
      [] doc_type = "LETTER_OF_INTENT" -> 20
      [] doc_type = "INSURANCE_DOCUMENT" -> 15
      [] doc_type = "SCHEDULE" -> 10
      [] doc_type = "CORRESPONDENCE" -> 10
      [] doc_type = "PROPOSAL" -> 5
      [] doc_type = "INVOICE" -> 5
      [] OTHER -> 0

status_bonus(status) ==
    CASE status = "EXECUTED_SIGNED" -> 30
      [] status = "DRAFT_UNSIGNED" -> 10
      [] status = "PROPOSAL" -> 5
      [] OTHER -> 0

\* mutant of version_bonus: the loop has no break, every pattern found counts
version_bonus_cumulative(filename) ==
    LET hits == {k \in 1..Len(version_patterns) :
                    Contains(version_patterns[k].pattern, filename)}
        RECURSIVE Sum(_)
        Sum(S) == IF S = {} THEN 0
                  ELSE LET k == CHOOSE x \in S : TRUE
                       IN  version_patterns[k].points + Sum(S \ {k})
    IN  Sum(hits)

\* the for/break loop over version_patterns: the first pattern found, in list order
version_bonus(filename) ==
    LET hits == {k \in 1..Len(version_patterns) :
                    Contains(version_patterns[k].pattern, filename)}
    IN  IF hits = {} THEN 0
        ELSE version_patterns[CHOOSE k \in hits : \A m \in hits : k <= m].points

filename_bonus(filename) ==
      (IF AnyIn(main_indicators, filename) THEN 25 ELSE 0)
    + (IF AnyIn(clean_indicators, filename) THEN 20 ELSE 0)
    + version_bonus(filename)
    + (IF AnyIn(contract_indicators, filename) THEN 10 ELSE 0)
    - (IF AnyIn(draft_indicators, filename) THEN 10 ELSE 0)

\* filename_bonus(lower(f)) for the filenames of the model, evaluated once
FilenameBonusOf == [f \in Filenames |-> filename_bonus(lower(f))]

\* the filename part of the score of classification.get("filename", "").lower()
filename_score(filename) ==
    IF filename \in Filenames THEN FilenameBonusOf[filename]
    ELSE filename_bonus(lower(filename))

text_length_bonus(text_length) ==
    IF text_length > 100000 THEN 15
    ELSE IF text_length > 50000 THEN 10
    ELSE IF text_length > 20000 THEN 5
    ELSE 0

confidence_bonus(confidence) ==
    CASE confidence = "HIGH" -> 5
      [] confidence = "LOW" -> 0 - 5
      [] OTHER -> 0

Max(a, b) == IF a >= b THEN a ELSE b

\* mutant of score_document_importance: a record already marked as main contract
\* by an earlier call scores higher
ScoreFavouringMarked(classification) ==
    Max(  importance_scores(classification.importance)
        + type_scores(classification.document_type)
        + status_bonus(classification.status)
        + filename_score(classification.filename)
        + text_length_bonus(classification.text_length)
        + confidence_bonus(classification.confidence)
        + (IF classification.is_main_contract = "True" THEN 5 ELSE 0),
        0)

score_document_importance(classification) ==
    Max(  importance_scores(classification.importance)
        + type_scores(classification.document_type)
        + status_bonus(classification.status)
        + filename_score(classification.filename)
        + text_length_bonus(classification.text_length)
        + confidence_bonus(classification.confidence),
        0)

-----------------------------------------------------------------------------
(* list.sort(key=..., reverse=True): a stable sort, descending by key.     *)
(* StableSortDesc(keys) is the order of the positions 1..Len(keys) after   *)
(* the sort: equal keys keep their original relative order.                *)

\* mutant of InsertDesc: an element goes in front of the elements of equal key
InsertDescUnstable(order, i, keys) ==
    LET p == Cardinality({k \in 1..Len(order) : keys[order[k]] > keys[i]})
    IN  SubSeq(order, 1, p) \o <<i>> \o SubSeq(order, p + 1, Len(order))

\* insert position i behind every position whose key is >= keys[i]
InsertDesc(order, i, keys) ==
    LET p == Cardinality({k \in 1..Len(order) : keys[order[k]] >= keys[i]})
    IN  SubSeq(order, 1, p) \o <<i>> \o SubSeq(order, p + 1, Len(order))

RECURSIVE SortPrefix(_, _)
SortPrefix(keys, n) ==
    IF n = 0 THEN <<>> ELSE InsertDesc(SortPrefix(keys, n - 1), n, keys)

StableSortDesc(keys) == SortPrefix(keys, Len(keys))

-----------------------------------------------------------------------------
(* identify_main_contract *)

NoReason == [kind |-> "", indicator |-> <<>>, count |-> 0, doc_type |-> ""]

\* next(ind for ind in strong_indicators if ind in filename), <<>> when there is none
FirstStrongIndicator(filename) ==
    LET hits == {k \in 1..Len(strong_indicators) : Contains(strong_indicators[k], filename)}
    IN  IF hits = {} THEN <<>>
        ELSE strong_indicators[CHOOSE k \in hits : \A m \in hits : k <= m]

\* FirstStrongIndicator(lower(f)) for the filenames of the model, evaluated once
StrongIndicatorOf == [f \in Filenames |-> FirstStrongIndicator(lower(f))]

\* the first strong indicator found in classification.get("filename", "").lower()
strong_indicator(filename) ==
    IF filename \in Filenames THEN StrongIndicatorOf[filename]
    ELSE FirstStrongIndicator(lower(filename))

\* f"Primary contract with '{...}' indicator"
IndicatorReason(indicator) ==
    [NoReason EXCEPT !.kind = "Primary contract with indicator", !.indicator = indicator]

\* f"Highest scoring among {len(primary_contracts)} primary contracts"
HighestPrimaryReason(n) ==
    [NoReason EXCEPT !.kind = "Highest scoring among primary contracts", !.count = n]

\* f"Highest scoring document (type: {doc_type}) - no primary contracts found"
NoPrimaryReason(doc_type) ==
    [NoReason EXCEPT !.kind = "Highest scoring document - no primary contracts found",
                     !.doc_type = doc_type]

\* mutant of IsErrorClassification: no classification is skipped
IsErrorClassificationNever(classification) == FALSE

\* `if classification.get("error"): continue`
IsErrorClassification(classification) == Truthy(classification.error)

\* the scored_docs list before the sort: one {"classification", "score"} entry per
\* classification that is not skipped, in list order ("classification" is the index
\* of the dict object in the caller's list)
RECURSIVE ScoredDocsOfFirst(_, _)
ScoredDocsOfFirst(cls, n) ==
    IF n = 0 THEN <<>>
    ELSE IF IsErrorClassification(cls[n]) THEN ScoredDocsOfFirst(cls, n - 1)
    ELSE Append(ScoredDocsOfFirst(cls, n - 1),
                [classification |-> n, score |-> score_document_importance(cls[n])])

ScoredDocs(cls) == ScoredDocsOfFirst(cls, Len(cls))

\* mutant of SortedScoredDocs: the list is left in classification order
UnsortedScoredDocs(cls) == ScoredDocs(cls)

\* the items of docs in the given order of their positions
Reordered(docs, order) == ListOf([k \in 1..Len(docs) |-> docs[order[k]]], Len(docs))

\* docs.sort(key=lambda x: x["score"], reverse=True)
SortedByScore(docs) ==
    Reordered(docs, StableSortDesc(ListOf([k \in 1..Len(docs) |-> docs[k].score], Len(docs))))

\* scored_docs.sort(key=lambda x: x["score"], reverse=True)
SortedScoredDocs(cls) == SortedByScore(ScoredDocs(cls))

\* mutant of HasStrongIndicator: the indicator scan finds nothing
HasStrongIndicatorNever(filename) == FALSE

\* any(indicator in filename for indicator in strong_indicators)
HasStrongIndicator(filename) == strong_indicator(filename) # <<>>

\* the chosen scored_docs entry and its reason; main |-> <<>> when None is returned
Choice(doc, reason) == [main |-> <<doc>>, reason |-> reason]

NoChoice == [main |-> <<>>, reason |-> NoReason]

\* the primary contracts in score order and the positions of those with an indicator:
\* the first with an indicator, or else primary_contracts[0]
ChoiceAmongPrimary(cls, primary_contracts, withIndicator) ==
    IF withIndicator # {}
    THEN Choice(primary_contracts[CHOOSE k \in withIndicator : \A m \in withIndicator : k <= m],
                IndicatorReason(strong_indicator(
                    cls[primary_contracts[CHOOSE k \in withIndicator :
                                             \A m \in withIndicator : k <= m].classification].filename)))
    ELSE Choice(primary_contracts[1], HighestPrimaryReason(Len(primary_contracts)))

\* `if primary_contracts:` ... `else:` scored_docs[0]
ChoiceAmongScored(cls, scored_docs, primary_contracts) ==
    IF primary_contracts # <<>>
    THEN ChoiceAmongPrimary(cls, primary_contracts,
             {k \in 1..Len(primary_contracts) :
                 HasStrongIndicator(cls[primary_contracts[k].classification].filename)})
    ELSE Choice(scored_docs[1],
                NoPrimaryReason(cls[scored_docs[1].classification].document_type))

\* `if not scored_docs: return None`, then the primary contracts of the sorted list
ChoiceOfSorted(cls, scored_docs) ==
    IF scored_docs = <<>>
    THEN NoChoice
    ELSE ChoiceAmongScored(cls, scored_docs,
             SelectSeq(scored_docs,
                       LAMBDA doc : cls[doc.classification].document_type = "PRIMARY_CONTRACT"))

MainContractChoice(cls) ==
    IF cls = <<>> THEN NoChoice ELSE ChoiceOfSorted(cls, SortedScoredDocs(cls))

\* main_contract["classification"][...] = ...: the metadata written into the dict
\* cls[i] of the caller's list
WithMainContractMetadata(cls, i, score, reason) ==
    [cls EXCEPT ![i] =
        [@ EXCEPT !.is_main_contract = "True",
                  !.importance_score = <<score>>,
                  !.ranking_reason = <<reason>>,
                  !.total_documents_analyzed = <<Len(cls)>>]]

IdentifyResult(cls, choice) ==
    IF choice.main = <<>>
    THEN [result |-> <<>>, classifications |-> cls]
    ELSE [result |-> <<choice.main[1].classification>>,
          classifications |->
              WithMainContractMetadata(cls, choice.main[1].classification,
                                       choice.main[1].score, choice.reason)]

\* the call: `result` is the returned object (<<>> for None, <<i>> for the dict
\* cls[i]), `classifications` is the caller's list after the call
identify_main_contract(cls) == IdentifyResult(cls, MainContractChoice(cls))

-----------------------------------------------------------------------------
(* rank_documents *)

\* mutant of determine_priority_level: the recommendation is looked at before the
\* document type
determine_priority_level_recommendation_first(doc, rank) ==
    IF doc.is_main_contract = "True" THEN "MAIN_CONTRACT"
    ELSE IF doc.recommendation = "ANALYZE_FULLY" THEN "ANALYZE_RECOMMENDED"
    ELSE IF doc.document_type = "PRIMARY_CONTRACT" /\ rank <= 3 THEN "HIGH_PRIORITY"
    ELSE "SUPPORTING_DOCUMENT"

\* _determine_priority_level
determine_priority_level(doc, rank) ==
    IF doc.is_main_contract = "True" THEN "MAIN_CONTRACT"
    ELSE IF doc.document_type = "PRIMARY_CONTRACT" /\ rank <= 3 THEN "HIGH_PRIORITY"
    ELSE IF doc.recommendation = "ANALYZE_FULLY" THEN "ANALYZE_RECOMMENDED"
    ELSE "SUPPORTING_DOCUMENT"

\* mutant of EnumerateFrom1: enumerate(scored_docs) without the start value
EnumerateFrom0(k) == k - 1

\* the number that enumerate(scored_docs, 1) gives to the k-th list item
EnumerateFrom1(k) == k

\* is_main = (main_filename and classification.get("filename") == main_filename):
\* None when there is no main contract, the empty string when its filename is empty
IsMainValue(main_filename, filename) ==
    IF main_filename = <<>> THEN "None"
    ELSE IF main_filename[1] = <<>> THEN "EmptyString"
    ELSE IF filename = main_filename[1] THEN "True"
    ELSE "False"

\* the enhanced copy of the classification dict at position source_index of the
\* list (rank and priority_level are set after the sort)
Enhanced(classification, source_index, score, is_main, main_reason) ==
    [filename |-> classification.filename,
     document_type |-> classification.document_type,
     importance |-> classification.importance,
     status |-> classification.status,
     confidence |-> classification.confidence,
     recommendation |-> classification.recommendation,
     text_length |-> classification.text_length,
     summary |-> classification.summary,
     error |-> classification.error,
     total_documents_analyzed |-> classification.total_documents_analyzed,
     importance_score |-> <<score>>,
     is_main_contract |-> is_main,
     ranking_reason |->
         IF is_main = "True" THEN main_reason ELSE classification.ranking_reason,
     source_index |-> source_index,
     rank |-> 0,
     priority_level |-> ""]

\* one pass of the loop `for classification in classifications`; main is the return
\* value of identify_main_contract
EnhancedClassification(cls, i, main) ==
    Enhanced(cls[i], i, score_document_importance(cls[i]),
             IsMainValue(IF main = <<>> THEN <<>> ELSE <<cls[main[1]].filename>>,
                         cls[i].filename),
             IF main = <<>> THEN <<>> ELSE cls[main[1]].ranking_reason)

\* for i, doc in enumerate(scored_docs, 1): rank and priority level
WithRank(doc, rank) ==
    [doc EXCEPT !.rank = rank, !.priority_level = determine_priority_level(doc, rank)]

Numbered(sorted) ==
    ListOf([k \in 1..Len(sorted) |-> WithRank(sorted[k], EnumerateFrom1(k))], Len(sorted))

\* scored_docs.sort(key=lambda x: x["importance_score"], reverse=True)
SortedByImportanceScore(docs) ==
    Reordered(docs, StableSortDesc(ListOf([k \in 1..Len(docs) |->
                                              docs[k].importance_score[1]], Len(docs))))

\* the part of rank_documents after the call of identify_main_contract
RankResult(cls, main) ==
    [result |->
        Numbered(SortedByImportanceScore(
            ListOf([i \in 1..Len(cls) |-> EnhancedClassification(cls, i, main)], Len(cls)))),
     classifications |-> cls]

RankIdentified(ident) == RankResult(ident.classifications, ident.result)

\* the call: `result` is the returned list, `classifications` is the caller's list
\* after the call (identify_main_contract has written into it)
rank_documents(cls) ==
    IF cls = <<>>
    THEN [result |-> <<>>, classifications |-> cls]
    ELSE RankIdentified(identify_main_contract(cls))

-----------------------------------------------------------------------------
(* Classification records as classify_document returns them *)

\* the record of a parsed oracle response plus the metadata added after parsing;
\* it has no "error" key
ParsedClassification(filename, document_type, importance, status, confidence, recommendation, text_length) ==
    [filename |-> filename,
     document_type |-> document_type,
     importance |-> importance,
     status |-> status,
     confidence |-> confidence,
     recommendation |-> recommendation,
     text_length |-> text_length,
     summary |-> <<>>,
     error |-> <<>>,
     is_main_contract |-> "absent",
     importance_score |-> <<>>,
     ranking_reason |-> <<>>,
     total_documents_analyzed |-> <<>>]

\* mutant of ErrorClassification: the failure is reported as an unclassified
\* document
ErrorClassificationAsUnknown(filename, error, text_length) ==
    [filename |-> filename,
     document_type |-> "UNKNOWN",
     importance |-> "MEDIUM",
     status |-> "UNKNOWN",
     confidence |-> "MEDIUM",
     recommendation |-> "REVIEW_MANUALLY",
     text_length |-> text_length,
     summary |-> <<>>,
     error |-> <<error>>,
     is_main_contract |-> "absent",
     importance_score |-> <<>>,
     ranking_reason |-> <<>>,
     total_documents_analyzed |-> <<>>]

\* the record built in the except branch of classify_document; its summary is
\* f"Classification failed: {str(e)}"
ErrorClassification(filename, error, text_length) ==
    [filename |-> filename,
     document_type |-> "ERROR",
     importance |-> "MEDIUM",
     status |-> "UNKNOWN",
     confidence |-> "LOW",
     recommendation |-> "REVIEW_MANUALLY",
     text_length |-> text_length,
     summary |-> <<"Classification failed: ", error>>,
     error |-> <<error>>,
     is_main_contract |-> "absent",
     importance_score |-> <<>>,
     ranking_reason |-> <<>>,
     total_documents_analyzed |-> <<>>]

-----------------------------------------------------------------------------
(* Inputs of the analyzer: lists of at most MaxDocs classification records *)

DocumentTypes == {"PRIMARY_CONTRACT", "AMENDMENT", "ERROR"}

ErrorTexts == {"Claude API overloaded after multiple attempts"}

\* lengths of the extracted text carried by the records (text_length)
TextLengths == {60}

ClassificationRecords ==
    {ParsedClassification(f, t, "HIGH", "UNKNOWN", "MEDIUM", "REVIEW_MANUALLY", n) :
        f \in Filenames, t \in DocumentTypes, n \in TextLengths}
    \cup {ParsedClassification(<<"a",".","p","d","f">>, "AMENDMENT", "LOW", "UNKNOWN", "MEDIUM",
                               "REVIEW_MANUALLY", n) : n \in TextLengths}
    \cup {ErrorClassification(f, e, n) : f \in Filenames, e \in ErrorTexts, n \in TextLengths}

ClassificationLists ==
    UNION {[1..n -> ClassificationRecords] : n \in 0..MaxDocs}

-----------------------------------------------------------------------------
(* The analyzer called on a list: specification SpecAnalyzer *)

NoRequest ==
    [state |-> "none", attempt |-> 0, max_retries |-> 0, responses |-> <<>>,
     sleeps |-> <<>>, exception |-> <<>>, text_length |-> 0]

NoResult == [status |-> "none", exception |-> "", message |-> "", result |-> <<>>]

NoHelperCall == [name |-> "none", args |-> <<>>, result |-> <<>>]

\* no run is under way: the analyzer is called directly
InitAnalyzer ==
    /\ classifications \in ClassificationLists
    /\ main_contract = <<>>
    /\ ranked_documents = <<>>
    /\ last_call = "none"
    /\ anthropic_max_retries = 3
    /\ pdf_files = <<>>
    /\ file_index = 0
    /\ failed_files = <<>>
    /\ request = NoRequest
    /\ run_pc = "idle"
    /\ run_result = NoResult
    /\ helper_call = NoHelperCall

IdentifyReturns(call) ==
    /\ classifications' = call.classifications
    /\ main_contract' = call.result
    /\ last_call' = "identify_main_contract"
    /\ UNCHANGED <<ranked_documents, runVars>>

IdentifyMainContract == IdentifyReturns(identify_main_contract(classifications))

RankReturns(call) ==
    /\ classifications' = call.classifications
    /\ ranked_documents' = call.result
    /\ last_call' = "rank_documents"
    /\ UNCHANGED <<main_contract, runVars>>

RankDocuments == RankReturns(rank_documents(classifications))

NextAnalyzer == IdentifyMainContract \/ RankDocuments

SpecAnalyzer == InitAnalyzer /\ [][NextAnalyzer]_vars

-----------------------------------------------------------------------------
(* _make_api_request: one pass of the retry loop per oracle outcome *)

Response(status, body, document_type) ==
    [kind |-> "response", status |-> status, body |-> body, document_type |-> document_type]

\* requests.exceptions.Timeout
Timeout == [kind |-> "timeout", status |-> 0, body |-> "", document_type |-> ""]

\* any other requests.exceptions.RequestException (connection error, ...)
RequestException ==
    [kind |-> "request_exception", status |-> 0, body |-> "", document_type |-> ""]

OtherStatuses == {400, 500}

\* what requests.post can do in one attempt: a 200 response whose body holds the
\* classification text, a 200 response whose JSON lacks content[0].text, a 529, a
\* 429, another status, a timeout, another request exception
OracleOutcomes ==
    {Response(200, "ok", t) : t \in DocumentTypes}
    \cup {Response(200, "malformed", "")}
    \cup {Response(st, "", "") : st \in {529, 429} \cup OtherStatuses}
    \cup {Timeout, RequestException}

AIClassificationError(message, status_code, attempts) ==
    [type |-> "AIClassificationError", message |-> message,
     status_code |-> status_code, attempts |-> attempts]

\* result["content"][0]["text"] on a body without it
KeyError ==
    [type |-> "KeyError", message |-> "'content'", status_code |-> <<>>, attempts |-> <<>>]

\* max_retries = max_retries or settings.anthropic_max_retries
EffectiveMaxRetries(max_retries, setting) ==
    IF max_retries = <<>> \/ max_retries = <<0>> THEN setting ELSE max_retries[1]

\* the call _make_api_request(prompt, max_retries=max_retries) before its first attempt
NewRequest(max_retries, setting, text_length) ==
    [state |-> "active", attempt |-> 0,
     max_retries |-> EffectiveMaxRetries(max_retries, setting),
     responses |-> <<>>, sleeps |-> <<>>, exception |-> <<>>,
     text_length |-> text_length]

\* mutant of MayRetry: the loop gives up one attempt early
MayRetryOneLess(attempt, max_retries) == attempt + 1 < max_retries

\* `if attempt < max_retries:`
MayRetry(attempt, max_retries) == attempt < max_retries

\* mutant of Retry: every retry waits the 5 seconds of a timeout
RetryFixedWait(r, wait_time) ==
    [r EXCEPT !.sleeps = Append(@, 5), !.attempt = @ + 1]

\* time.sleep(wait_time); continue
Retry(r, wait_time) ==
    [r EXCEPT !.sleeps = Append(@, wait_time), !.attempt = @ + 1]

Raise(r, exception) == [r EXCEPT !.state = "raised", !.exception = <<exception>>]

\* mutant of OtherHttpError: any other status is retried like a timeout
OtherHttpErrorRetried(r, status) ==
    IF MayRetry(r.attempt, r.max_retries) THEN Retry(r, 5)
    ELSE Raise(r, AIClassificationError("Claude API error", <<status>>, <<>>))

\* the else branch: raise AIClassificationError(f"Claude API error: ...")
OtherHttpError(r, status) ==
    Raise(r, AIClassificationError("Claude API error", <<status>>, <<>>))

\* one pass of `for attempt in range(max_retries + 1)` with the given outcome of
\* requests.post
AttemptOutcome(r, outcome) ==
        IF outcome.kind = "response"
        THEN IF outcome.status = 200
             THEN IF outcome.body = "ok"
                  THEN [r EXCEPT !.state = "returned"]
                  ELSE Raise(r, KeyError)
             ELSE IF outcome.status = 529
             THEN IF MayRetry(r.attempt, r.max_retries)
                  THEN Retry(r, (2 ^ r.attempt) * 5)
                  ELSE Raise(r, AIClassificationError(
                                   "Claude API overloaded after multiple attempts",
                                   <<529>>, <<r.max_retries + 1>>))
             ELSE IF outcome.status = 429
             THEN IF MayRetry(r.attempt, r.max_retries)
                  THEN Retry(r, 30 + (r.attempt * 10))
                  ELSE Raise(r, AIClassificationError(
                                   "Claude API rate limited after multiple attempts",
                                   <<429>>, <<r.max_retries + 1>>))
             ELSE OtherHttpError(r, outcome.status)
        ELSE IF outcome.kind = "timeout"
        THEN IF MayRetry(r.attempt, r.max_retries)
             THEN Retry(r, 5)
             ELSE Raise(r, AIClassificationError("Request timeout after multiple attempts",
                                                 <<>>, <<>>))
        ELSE IF MayRetry(r.attempt, r.max_retries)
             THEN Retry(r, 5)
             ELSE Raise(r, AIClassificationError("Request failed after multiple attempts",
                                                 <<>>, <<>>))

MakeApiRequestAttempt(request0, outcome) ==
    AttemptOutcome([request0 EXCEPT !.responses = Append(@, outcome)], outcome)

\* what classify_document returns once _make_api_request has returned or raised:
\* the parsed record, or the error record of `except Exception`
classify_document(r, filename) ==
    IF r.state = "returned"
    THEN ParsedClassification(filename, r.responses[Len(r.responses)].document_type,
                              "HIGH", "UNKNOWN", "MEDIUM", "REVIEW_MANUALLY", r.text_length)
    ELSE ErrorClassification(filename, r.exception[1].message, r.text_length)

-----------------------------------------------------------------------------
(* analyze_directory_complete: specification SpecRun *)

\* the filenames in the order of file_info_list.sort(key=lambda x: x["filename"].lower())
SortedFilenames ==
    << <<"a",".","p","d","f">>,
       <<"A","g","r","e","e","m","e","n","t","_","r","2",".","p","d","f">>,
       <<"c","l","e","a","n",".","p","d","f">>,
       <<"F","i","n","a","l",".","p","d","f">> >>

\* the files at the positions S of SortedFilenames, in that order
FilesAt(S) ==
    [k \in 1..Cardinality(S) |->
        SortedFilenames[CHOOSE i \in S : Cardinality({j \in S : j < i}) = k - 1]]

\* scan results: distinct filenames, sorted, at least one
ScanResults ==
    {FilesAt(S) : S \in {T \in SUBSET (1..Len(SortedFilenames)) :
                            Cardinality(T) >= 1 /\ Cardinality(T) <= MaxFiles}}

\* lengths of the stripped text that extract_text_from_file returns
ExtractedLengths == {0, 49, 50}

InitRun ==
    /\ classifications = <<>>
    /\ main_contract = <<>>
    /\ ranked_documents = <<>>
    /\ last_call = "none"
    /\ anthropic_max_retries \in 0..MaxRetriesSetting
    /\ pdf_files = <<>>
    /\ file_index = 0
    /\ failed_files = <<>>
    /\ request = NoRequest
    /\ run_pc = "start"
    /\ run_result = NoResult
    /\ helper_call = NoHelperCall

\* mutant of RunRaised: the exception leaves the run as it was raised
RunRaisedUnwrapped(message) ==
    [status |-> "raised", exception |-> "DirectoryEmptyError", message |-> message,
     result |-> <<>>]

\* the except clause of analyze_directory_complete: every exception leaves as a
\* DirectoryAnalyzerException
RunRaised(message) ==
    [status |-> "raised", exception |-> "DirectoryAnalyzerException", message |-> message,
     result |-> <<>>]

\* round(x, 2) of the quotient num / den * 100, in hundredths
RoundedPercent(num, den) == (2 * num * 10000 + den) \div (2 * den)

\* mutant of SuccessRate: the rate is taken over the classified documents only
SuccessRateOfClassified(successful_count, total_files) ==
    IF successful_count > 0 THEN RoundedPercent(successful_count, successful_count) ELSE 0

\* success_rate = (successful_count / total_files * 100) if total_files > 0 else 0,
\* rounded to two decimals; the value is in hundredths of a percent
SuccessRate(successful_count, total_files) ==
    IF total_files > 0 THEN RoundedPercent(successful_count, total_files) ELSE 0

IsPrimaryContract(c) == c.document_type = "PRIMARY_CONTRACT"

IsCritical(c) == c.importance = "CRITICAL"

IsExecuted(c) == c.status = "EXECUTED_SIGNED"

\* the counts of the statistics; scan_time and estimated_cost are left out
calculate_analysis_stats(total_files, successful_classifications, failed) ==
    [total_documents |-> total_files,
     successful_scans |-> Len(successful_classifications),
     failed_scans |-> Len(failed),
     success_rate |-> SuccessRate(Len(successful_classifications), total_files),
     critical_documents |-> Cardinality({k \in 1..Len(successful_classifications) :
                                           IsCritical(successful_classifications[k])}),
     primary_contracts |-> Cardinality({k \in 1..Len(successful_classifications) :
                                          IsPrimaryContract(successful_classifications[k])}),
     executed_documents |-> Cardinality({k \in 1..Len(successful_classifications) :
                                           IsExecuted(successful_classifications[k])})]

\* mutant of SummarizedPositions: the error records are summarized too
SummarizedPositionsAll(cls) == 1..Len(cls)

\* `if classification.get("error"): continue`: the positions the summary counts
SummarizedPositions(cls) == {k \in 1..Len(cls) : ~IsErrorClassification(cls[k])}

\* one frequency dict of the summary: a key for each value met, with its count
FrequencyTable(cls, key) ==
    [v \in {cls[k][key] : k \in SummarizedPositions(cls)} |->
        Cardinality({k \in SummarizedPositions(cls) : cls[k][key] = v})]

generate_classification_summary(cls) ==
    [total_documents |-> Len(cls),
     by_type |-> FrequencyTable(cls, "document_type"),
     by_importance |-> FrequencyTable(cls, "importance"),
     by_status |-> FrequencyTable(cls, "status"),
     recommendations |-> FrequencyTable(cls, "recommendation")]

\* step 5: the result dict
CompiledResult(total_files, ranked, main, failed) ==
    [success |-> TRUE,
     main_contract |-> main.result,
     ranked_documents |-> ranked.result,
     stats |-> calculate_analysis_stats(total_files, main.classifications, failed),
     classification_summary |-> generate_classification_summary(main.classifications),
     failed_files |-> failed]

RunReturned(result) ==
    [status |-> "returned", exception |-> "", message |-> "", result |-> <<result>>]

\* the result dict is compiled and returned
RunReturns(ranked, main, failed) ==
    /\ run_pc' = "returned"
    /\ run_result' = RunReturned(CompiledResult(Len(pdf_files), ranked, main, failed))
    /\ classifications' = main.classifications
    /\ ranked_documents' = ranked.result
    /\ main_contract' = main.result
    /\ last_call' = "identify_main_contract"

\* main_contract = document_analyzer.identify_main_contract(classifications)
RunIdentifies(ranked, failed) ==
    RunReturns(ranked, identify_main_contract(ranked.classifications), failed)

\* mutant of FinishRun: any failed document fails the whole run
FinishRunAllOrNothing(cls, failed) ==
    IF cls = <<>> \/ failed # <<>> \/ \E k \in 1..Len(cls) : IsErrorClassification(cls[k])
    THEN /\ run_pc' = "raised"
         /\ run_result' = RunRaised("No documents could be successfully processed")
         /\ classifications' = cls
         /\ UNCHANGED <<main_contract, ranked_documents, last_call>>
    ELSE RunIdentifies(rank_documents(cls), failed)

\* steps 3 to 5 of analyze_directory_complete, after _process_pdf_files has returned
FinishRun(cls, failed) ==
    IF cls = <<>>
    THEN /\ run_pc' = "raised"
         /\ run_result' = RunRaised("No documents could be successfully processed")
         /\ classifications' = cls
         /\ UNCHANGED <<main_contract, ranked_documents, last_call>>
    ELSE RunIdentifies(rank_documents(cls), failed)

\* the loop of _process_pdf_files goes on to the next file, or ends
AfterDocument(cls, failed) ==
    /\ failed_files' = failed
    /\ IF file_index < Len(pdf_files)
       THEN /\ file_index' = file_index + 1
            /\ run_pc' = "extract"
            /\ classifications' = cls
            /\ UNCHANGED <<main_contract, ranked_documents, last_call, run_result>>
       ELSE /\ FinishRun(cls, failed)
            /\ UNCHANGED file_index

\* mutant of WithFailure: the failed document leaves no trace
WithFailureDropped(failed, filename, reason) == failed

\* the except clauses of the loop: failed_files.append(error_msg), the message
\* made of the file's name and the reason
WithFailure(failed, filename, reason) ==
    Append(failed, [filename |-> filename, reason |-> reason])

\* step 1: directory_scanner.scan_directory returns the files
ScanDirectory ==
    /\ run_pc = "start"
    /\ \E files \in ScanResults :
          /\ pdf_files' = files
          /\ file_index' = 1
          /\ run_pc' = "extract"
    /\ UNCHANGED <<analyzerVars, anthropic_max_retries, failed_files, request, run_result,
                   helper_call>>

\* step 1: directory_scanner.scan_directory raises (no directory, no PDF file)
ScanFails ==
    /\ run_pc = "start"
    /\ run_pc' = "raised"
    /\ run_result' = RunRaised("scan_directory raised")
    /\ UNCHANGED <<analyzerVars, anthropic_max_retries, helper_call, pdf_files, file_index,
                   failed_files, request>>

\* mutant of InsufficientText: only an empty text is refused
InsufficientTextOnlyEmpty(length) == length = 0

\* `if not document_text or len(document_text.strip()) < 50`, on the length of the
\* stripped text
InsufficientText(length) == length = 0 \/ length < 50

\* pdf_extractor.extract_text_from_file raises PDFExtractionError
ExtractionRaises ==
    /\ run_pc = "extract"
    /\ request' = NoRequest
    /\ AfterDocument(classifications,
                     WithFailure(failed_files, pdf_files[file_index], "PDFExtractionError"))
    /\ UNCHANGED <<anthropic_max_retries, pdf_files, helper_call>>

\* extract_text_from_file returns a text of the given stripped length: too short a
\* text fails the document, any other is handed to classify_document, which starts
\* _make_api_request(prompt)
ExtractText ==
    /\ run_pc = "extract"
    /\ \E length \in ExtractedLengths :
          IF InsufficientText(length)
          THEN /\ request' = NoRequest
               /\ AfterDocument(classifications,
                                WithFailure(failed_files, pdf_files[file_index],
                                            "Insufficient text extracted"))
          ELSE /\ request' = NewRequest(<<>>, anthropic_max_retries, length)
               /\ run_pc' = "request"
               /\ UNCHANGED <<analyzerVars, file_index, failed_files, run_result>>
    /\ UNCHANGED <<anthropic_max_retries, pdf_files, helper_call>>

RequestGoesOn(r) ==
    /\ request' = r
    /\ IF r.state = "active"
       THEN UNCHANGED <<analyzerVars, file_index, failed_files, run_pc, run_result>>
       ELSE AfterDocument(Append(classifications, classify_document(r, pdf_files[file_index])),
                          failed_files)

\* requests.post returns or raises: the retry loop sleeps and goes on, or the request
\* ends, classify_document returns its record and the record is appended
HttpAttempt ==
    /\ run_pc = "request"
    /\ \E outcome \in OracleOutcomes :
          RequestGoesOn(MakeApiRequestAttempt(request, outcome))
    /\ UNCHANGED <<anthropic_max_retries, pdf_files, helper_call>>

NextRun == ScanDirectory \/ ScanFails \/ ExtractionRaises \/ ExtractText \/ HttpAttempt

SpecRun == InitRun /\ [][NextRun]_vars

-----------------------------------------------------------------------------
(* Vocabulary of the properties of the analyzer *)

\* identify_main_contract has just returned / rank_documents has just returned
IdentifyReturned == last_call = "identify_main_contract"

RankReturned == last_call = "rank_documents"

Positions == 1..Len(classifications)

ScoreAt(i) == score_document_importance(classifications[i])

\* the entry carries no error: these are the entries that the selection considers
NonErrorAt(i) == classifications[i].error = <<>>

PrimaryAt(i) == NonErrorAt(i) /\ classifications[i].document_type = "PRIMARY_CONTRACT"

\* the lower-cased filename contains 'executed', 'clean', 'final' or 'signed'
IndicatorAt(i) == AnyIn(strong_indicators, lower(classifications[i].filename))

IndicatorPrimaries == {i \in Positions : PrimaryAt(i) /\ IndicatorAt(i)}

Primaries == {i \in Positions : PrimaryAt(i)}

NonErrors == {i \in Positions : NonErrorAt(i)}

\* i has the maximum score of the positions S and is the earliest of those tied
BestOf(i, S) ==
    /\ i \in S
    /\ \A j \in S : ScoreAt(j) < ScoreAt(i) \/ (ScoreAt(j) = ScoreAt(i) /\ i <= j)

SelectedReason == classifications[main_contract[1]].ranking_reason[1]

MainEntries == {k \in 1..Len(ranked_documents) : ranked_documents[k].is_main_contract = "True"}

-----------------------------------------------------------------------------
\* C1: in every list returned by rank_documents at most one entry has
\* is_main_contract true.  (Violated: the flag is set by filename equality, so two
\* classifications with the same filename are both flagged.)
C1_AtMostOneMainContract ==
    RankReturned => Cardinality(MainEntries) <= 1

\* C2, as claimed: among several non-error PRIMARY_CONTRACT entries with an indicator
\* in the filename, the one that comes first in the input list is selected.
C2_FirstIndicatorInListOrder ==
    (IdentifyReturned /\ IndicatorPrimaries # {}) =>
        /\ main_contract # <<>>
        /\ \A j \in IndicatorPrimaries : main_contract[1] <= j

\* C2, amended: among the non-error PRIMARY_CONTRACT entries with an indicator in the
\* filename, the one of maximum score is selected, the earliest in the input list
\* among those of equal score.
C2_HighestScoringIndicator ==
    (IdentifyReturned /\ IndicatorPrimaries # {}) =>
        /\ main_contract # <<>>
        /\ BestOf(main_contract[1], IndicatorPrimaries)

\* two indicator-named primary contracts, the second of the list scoring higher
C2_Witness ==
    /\ IdentifyReturned
    /\ Cardinality(IndicatorPrimaries) >= 2
    /\ main_contract # <<>>
    /\ \E j \in IndicatorPrimaries : j < main_contract[1] /\ ScoreAt(j) < ScoreAt(main_contract[1])

\* C3: when some non-error PRIMARY_CONTRACT entry has an indicator in its filename,
\* the selected main contract is a PRIMARY_CONTRACT entry with an indicator, even if
\* a PRIMARY_CONTRACT entry without indicator scores strictly higher.
C3_IndicatorOverridesScore ==
    (IdentifyReturned /\ IndicatorPrimaries # {}) =>
        /\ main_contract # <<>>
        /\ main_contract[1] \in IndicatorPrimaries
        /\ SelectedReason.kind = "Primary contract with indicator"

\* the selected entry is outscored by a primary contract without indicator
C3_Witness ==
    /\ IdentifyReturned
    /\ main_contract # <<>>
    /\ main_contract[1] \in IndicatorPrimaries
    /\ \E j \in Primaries : ~IndicatorAt(j) /\ ScoreAt(j) > ScoreAt(main_contract[1])

\* C4: when there are non-error PRIMARY_CONTRACT entries and none has an indicator,
\* the selected main contract is the PRIMARY_CONTRACT entry of maximum score, the
\* earliest in list order among those tied, and its reason states their number N.
C4_HighestScoringPrimary ==
    (IdentifyReturned /\ Primaries # {} /\ IndicatorPrimaries = {}) =>
        /\ main_contract # <<>>
        /\ BestOf(main_contract[1], Primaries)
        /\ SelectedReason.kind = "Highest scoring among primary contracts"
        /\ SelectedReason.count = Cardinality(Primaries)

\* primary contracts without indicator: one scores lower than the selected one and
\* comes before it, another ties with it and comes after it
C4_Witness ==
    /\ IdentifyReturned
    /\ IndicatorPrimaries = {}
    /\ main_contract # <<>>
    /\ \E j, k \in Primaries :
          /\ j < main_contract[1] /\ ScoreAt(j) < ScoreAt(main_contract[1])
          /\ k > main_contract[1] /\ ScoreAt(k) = ScoreAt(main_contract[1])

\* C5: when no non-error entry is a PRIMARY_CONTRACT and some non-error entry
\* exists, the selected main contract is the non-error entry of maximum score over
\* all types, the earliest in list order on a tie, and its reason names its type and
\* says that no primary contracts were found.
C5_NoPrimaryFallback ==
    (IdentifyReturned /\ Primaries = {} /\ NonErrors # {}) =>
        /\ main_contract # <<>>
        /\ BestOf(main_contract[1], NonErrors)
        /\ SelectedReason.kind = "Highest scoring document - no primary contracts found"
        /\ SelectedReason.doc_type = classifications[main_contract[1]].document_type

\* no primary contract; the selected AMENDMENT is outscored by an error entry and
\* comes before an entry of equal score
C5_Witness ==
    /\ IdentifyReturned
    /\ Primaries = {}
    /\ main_contract # <<>>
    /\ classifications[main_contract[1]].document_type = "AMENDMENT"
    /\ \E e \in Positions \ NonErrors : ScoreAt(e) > ScoreAt(main_contract[1])
    /\ \E k \in NonErrors : k > main_contract[1] /\ ScoreAt(k) = ScoreAt(main_contract[1])

\* C6: identify_main_contract never returns an entry whose document_type is ERROR,
\* and returns None when every entry of its input has document_type ERROR.
\* (Violated: entries are skipped by their "error" value, which a record parsed from
\* an oracle response "DOCUMENT_TYPE: ERROR" does not have.)
C6_NeverSelectsErrorType ==
    IdentifyReturned =>
        /\ main_contract # <<>> =>
              classifications[main_contract[1]].document_type # "ERROR"
        /\ (\A i \in Positions : classifications[i].document_type = "ERROR") =>
              main_contract = <<>>

\* C7: rank_documents returns exactly one entry per input classification, error
\* entries included, and the rank values of the output are exactly 1..N; for the
\* empty list it returns the empty list.
C7_DenseRanking ==
    RankReturned =>
        /\ Len(ranked_documents) = Len(classifications)
        /\ \A i \in Positions :
              Cardinality({k \in 1..Len(ranked_documents) :
                              ranked_documents[k].source_index = i}) = 1
        /\ \A k \in 1..Len(ranked_documents) :
              LET d == ranked_documents[k]
                  c == classifications[d.source_index]
              IN  /\ d.filename = c.filename
                  /\ d.document_type = c.document_type
                  /\ d.error = c.error
        /\ {ranked_documents[k].rank : k \in 1..Len(ranked_documents)} = Positions
        /\ \A k, m \in 1..Len(ranked_documents) :
              ranked_documents[k].rank = ranked_documents[m].rank => k = m

\* three documents ranked, one of them an error entry
C7_Witness ==
    /\ RankReturned
    /\ Len(ranked_documents) >= 3
    /\ \E k \in 1..Len(ranked_documents) : ranked_documents[k].document_type = "ERROR"
    /\ \E k \in 1..Len(ranked_documents) : ranked_documents[k].error # <<>>

\* C8: the list returned by rank_documents is in descending order of
\* importance_score, entries of equal score keep the relative order of the input
\* list, and rank i is the i-th entry of that order.
C8_SortedStable ==
    RankReturned =>
        \A k \in 1..Len(ranked_documents) :
            /\ ranked_documents[k].rank = k
            /\ ranked_documents[k].importance_score =
                  <<ScoreAt(ranked_documents[k].source_index)>>
            /\ \A m \in 1..Len(ranked_documents) :
                  k < m =>
                     \/ ranked_documents[k].importance_score[1]
                           > ranked_documents[m].importance_score[1]
                     \/ /\ ranked_documents[k].importance_score[1]
                              = ranked_documents[m].importance_score[1]
                        /\ ranked_documents[k].source_index < ranked_documents[m].source_index

\* the order of the output differs from the input order, and two entries tie
C8_Witness ==
    /\ RankReturned
    /\ \E k, m \in 1..Len(ranked_documents) :
          /\ k < m
          /\ ranked_documents[k].source_index > ranked_documents[m].source_index
    /\ \E k, m \in 1..Len(ranked_documents) :
          /\ k < m
          /\ ranked_documents[k].importance_score = ranked_documents[m].importance_score
          /\ ranked_documents[k].filename # ranked_documents[m].filename

-----------------------------------------------------------------------------
(* Vocabulary of the properties of the oracle request *)

RequestEnded == request.state \in {"returned", "raised"}

\* the oracle has answered every attempt of the current request with HTTP 529
Only529 ==
    /\ request.responses # <<>>
    /\ \A k \in 1..Len(request.responses) :
          request.responses[k].kind = "response" /\ request.responses[k].status = 529

\* the k-th attempt of the current request got a status other than 200, 529, 429
OtherStatusAt(k) ==
    /\ request.responses[k].kind = "response"
    /\ request.responses[k].status \notin {200, 529, 429}

LastClassification == classifications[Len(classifications)]

-----------------------------------------------------------------------------
\* C9: when the oracle answers every request of a document with HTTP 529, exactly
\* max_retries + 1 attempts are made, then the request fails with a classification
\* failure and classify_document returns an ERROR record: the record joins the
\* classifications and the run does not raise.
C9_Always529GivesErrorRecord ==
    Only529 =>
        /\ request.state = "active" => Len(request.responses) <= anthropic_max_retries
        /\ RequestEnded =>
              /\ Len(request.responses) = anthropic_max_retries + 1
              /\ request.state = "raised"
              /\ request.exception[1].type = "AIClassificationError"
              /\ request.exception[1].status_code = <<529>>
              /\ classifications # <<>>
              /\ LastClassification.document_type = "ERROR"
              /\ LastClassification.confidence = "LOW"
              /\ LastClassification.error = <<request.exception[1].message>>
              /\ \A k \in 1..Len(failed_files) :
                    failed_files[k].filename # LastClassification.filename
              /\ run_result.status # "raised"

\* three attempts answered 529 with anthropic_max_retries = 2, and the run returned
C9_Witness ==
    /\ Only529
    /\ request.state = "raised"
    /\ Len(request.responses) = 3
    /\ run_result.status = "returned"
    /\ LastClassification.document_type = "ERROR"

\* C10: a response whose status is neither 200, 529 nor 429 ends the request with
\* a classification failure at once, at whatever attempt it arrives: it is the last
\* attempt of the request and no wait follows it.
C10_OtherStatusFailsAtOnce ==
    \A k \in 1..Len(request.responses) :
        OtherStatusAt(k) =>
            /\ k = Len(request.responses)
            /\ request.state = "raised"
            /\ request.exception[1].type = "AIClassificationError"
            /\ request.exception[1].status_code = <<request.responses[k].status>>
            /\ Len(request.sleeps) = k - 1

\* the other status arrives at the second attempt, when a retry is still allowed
C10_Witness ==
    /\ Len(request.responses) = 2
    /\ OtherStatusAt(2)
    /\ request.max_retries = 2
    /\ request.state = "raised"

-----------------------------------------------------------------------------
(* Vocabulary of the properties of the run *)

RunEnded == run_pc \in {"returned", "raised"}

\* the number of documents the loop of _process_pdf_files is done with
Processed ==
    IF run_pc \in {"extract", "request"} THEN file_index - 1
    ELSE IF RunEnded THEN Len(pdf_files)
    ELSE 0

ClassifiedCount(filename) ==
    Cardinality({k \in 1..Len(classifications) : classifications[k].filename = filename})

FailedCount(filename) ==
    Cardinality({k \in 1..Len(failed_files) : failed_files[k].filename = filename})

-----------------------------------------------------------------------------
\* C11: every document the loop of _process_pdf_files is done with accounts for
\* exactly one item, a record in classifications or an entry in failed_files, never
\* both and never neither; so the two lengths add up to the number of documents.
C11_OneItemPerDocument ==
    /\ Len(classifications) + Len(failed_files) = Processed
    /\ \A k \in 1..Len(pdf_files) :
          ClassifiedCount(pdf_files[k]) + FailedCount(pdf_files[k])
              = IF k <= Processed THEN 1 ELSE 0

\* a finished run of two documents, one classified and one failed
C11_Witness ==
    /\ RunEnded
    /\ Len(pdf_files) = 2
    /\ Len(classifications) = 1
    /\ Len(failed_files) = 1

\* the k-th classification is the record of a failed classification (the error
\* record of classify_document)
ClassificationFailedAt(k) == classifications[k].error # <<>>

\* C12: a document whose text extraction or oracle classification fails adds one
\* entry to failed_files (and no record to classifications), and the loop goes on
\* to every later document: a run that has scanned files ends only after the last.
C12_FailuresGoToFailedFiles ==
    /\ \A k \in 1..Len(classifications) :
          ClassificationFailedAt(k) => FailedCount(classifications[k].filename) = 1
    /\ (RunEnded /\ pdf_files # <<>>) => file_index = Len(pdf_files)

\* no document of the run was classified successfully: every record is the error
\* record of a failed classification (the other documents failed extraction)
NoSuccessfulClassification ==
    \A k \in 1..Len(classifications) : ClassificationFailedAt(k)

\* C13: a run in which no document is classified successfully (each one fails text
\* extraction or ends with an oracle classification failure) raises a failure for
\* the whole run instead of returning a result.
C13_NoSuccessRaises ==
    (RunEnded /\ NoSuccessfulClassification) => run_result.status = "raised"

\* C14: when the scan succeeded and at least one document was extracted and
\* classified successfully, the run returns a result with success true and does not
\* raise, however many other documents failed extraction or classification.
C14_OneSuccessReturns ==
    (RunEnded /\ ~NoSuccessfulClassification) =>
        /\ run_result.status = "returned"
        /\ run_result.result # <<>>
        /\ run_result.result[1].success

\* a returned run of two documents: one classified successfully, the other failed
\* extraction or classification
C14_Witness ==
    /\ run_pc = "returned"
    /\ Len(pdf_files) = 2
    /\ \E k \in 1..Len(classifications) : ~ClassificationFailedAt(k)
    /\ \/ failed_files # <<>>
       \/ \E k \in 1..Len(classifications) : ClassificationFailedAt(k)

ScanSucceeded == pdf_files # <<>>

\* C15 as stated: when no classification of the run qualifies for main-contract
\* selection (the classification set is empty or holds no selectable entry), the
\* run returns a successful result whose main_contract is null and does not raise.
C15_NoQualifyingReturnsNull ==
    (RunEnded /\ ScanSucceeded /\ NoSuccessfulClassification) =>
        /\ run_result.status = "returned"
        /\ run_result.result # <<>>
        /\ run_result.result[1].main_contract = <<>>

\* C15 amended: when the classification set is not empty and holds no selectable
\* entry (every record carries an error), the run returns a successful result whose
\* main_contract is null; when the classification set is empty the run raises.
C15_NoSelectableReturnsNullEmptyRaises ==
    (RunEnded /\ ScanSucceeded /\ NoSuccessfulClassification) =>
        IF classifications = <<>>
        THEN /\ run_result.status = "raised"
             /\ run_result.exception = "DirectoryAnalyzerException"
             /\ run_result.result = <<>>
        ELSE /\ run_result.status = "returned"
             /\ run_result.result # <<>>
             /\ run_result.result[1].success
             /\ run_result.result[1].main_contract = <<>>
             /\ main_contract = <<>>

\* a returned run whose two classifications both carry an error
C15_Witness ==
    /\ run_pc = "returned"
    /\ Len(classifications) = 2
    /\ NoSuccessfulClassification
    /\ run_result.result[1].main_contract = <<>>

\* the statistics of 10 documents of which 3 failed extraction and 7 were classified
TenDocumentsStats ==
    calculate_analysis_stats(
        10,
        [k \in 1..7 |-> ParsedClassification(<<"a",".","p","d","f">>, "AMENDMENT", "HIGH",
                                             "UNKNOWN", "MEDIUM", "REVIEW_MANUALLY", 60)],
        [k \in 1..3 |-> [filename |-> <<"a",".","p","d","f">>, reason |-> "PDFExtractionError"]])

\* the statistics of no document at all
NoDocumentStats == calculate_analysis_stats(0, <<>>, <<>>)

\* rate is successful / total x 100 rounded to two decimals (rate in hundredths)
IsPercentOf(rate, successful, total) ==
    /\ 2 * (rate * total - successful * 10000) <= total
    /\ 2 * (successful * 10000 - rate * total) <= total

\* C16: in the stats of every returned run successful_scans + failed_scans =
\* total_documents and success_rate = successful_scans / total_documents x 100
\* (0 when total_documents is 0); 10 documents of which 3 fail extraction give
\* 7 successful scans, 3 failed scans and a success_rate of 70.
C16_StatsAddUp ==
    /\ run_pc = "returned" =>
          /\ run_result.result[1].stats.total_documents = Len(pdf_files)
          /\ run_result.result[1].stats.successful_scans = Len(classifications)
          /\ run_result.result[1].stats.failed_scans = Len(failed_files)
          /\ run_result.result[1].stats.successful_scans
                + run_result.result[1].stats.failed_scans
                = run_result.result[1].stats.total_documents
          /\ IsPercentOf(run_result.result[1].stats.success_rate,
                         run_result.result[1].stats.successful_scans,
                         run_result.result[1].stats.total_documents)
    /\ TenDocumentsStats.successful_scans = 7
    /\ TenDocumentsStats.failed_scans = 3
    /\ TenDocumentsStats.success_rate = 7000
    /\ NoDocumentStats.success_rate = 0

\* a returned run of two documents of which one failed extraction: rate 50
C16_Witness ==
    /\ run_pc = "returned"
    /\ run_result.result[1].stats.total_documents = 2
    /\ run_result.result[1].stats.failed_scans = 1
    /\ run_result.result[1].stats.success_rate = 5000

-----------------------------------------------------------------------------
(* Vocabulary of the properties of repeated calls *)

\* the record as it was before any call marked it as main contract
UnmarkedRecord(classification) ==
    [classification EXCEPT !.is_main_contract = "absent",
                           !.importance_score = <<>>,
                           !.ranking_reason = <<>>,
                           !.total_documents_analyzed = <<>>]

RECURSIVE UnmarkedFirst(_, _)
UnmarkedFirst(cls, n) ==
    IF n = 0 THEN <<>> ELSE Append(UnmarkedFirst(cls, n - 1), UnmarkedRecord(cls[n]))

\* the caller's list as it was handed to the first call
Unmarked(cls) == UnmarkedFirst(cls, Len(cls))

\* some record of the list carries the marks of an earlier call
MarkedByEarlierCall == \E k \in Positions : classifications[k].is_main_contract = "True"

\* C17: on a fixed list of records, a later call of score_document_importance,
\* identify_main_contract or rank_documents gives the same scores, the same ranked
\* list and the same main contract as the first call on the list as it was before
\* any call, although the earlier calls have marked the records.
C17_RepeatedCallsAgree ==
    /\ \A k \in Positions :
          score_document_importance(classifications[k])
              = score_document_importance(UnmarkedRecord(classifications[k]))
    /\ IdentifyReturned =>
          /\ main_contract = identify_main_contract(Unmarked(classifications)).result
          /\ classifications = identify_main_contract(Unmarked(classifications)).classifications
    /\ RankReturned =>
          /\ ranked_documents = rank_documents(Unmarked(classifications)).result
          /\ classifications = rank_documents(Unmarked(classifications)).classifications

\* identify_main_contract has returned a main contract on records that an earlier
\* call of rank_documents had already marked
C17_Witness ==
    /\ IdentifyReturned
    /\ ranked_documents # <<>>
    /\ main_contract # <<>>
    /\ MarkedByEarlierCall
    /\ Len(classifications) >= 2

-----------------------------------------------------------------------------
\* the run has returned the full result: success true, the main contract (or None),
\* a non-empty ranked list, the stats, the summary and the failed files
ReturnedFullResult ==
    /\ run_result.status = "returned"
    /\ run_result.exception = ""
    /\ run_result.result # <<>>
    /\ run_result.result[1].success
    /\ run_result.result[1].main_contract = main_contract
    /\ run_result.result[1].ranked_documents = ranked_documents
    /\ ranked_documents # <<>>
    /\ Len(ranked_documents) = Len(classifications)
    /\ run_result.result[1].stats.total_documents = Len(pdf_files)
    /\ run_result.result[1].classification_summary.total_documents = Len(classifications)
    /\ run_result.result[1].failed_files = failed_files

\* the run has raised DirectoryAnalyzerException with a reason message
RaisedAnalysisFailed ==
    /\ run_result.status = "raised"
    /\ run_result.exception = "DirectoryAnalyzerException"
    /\ run_result.message # ""
    /\ run_result.result = <<>>

\* before its end the run stands at a step that can be taken: the scan, the
\* extraction of a scanned file, or an attempt of a request with attempts left
RunCanGoOn ==
    /\ run_result = NoResult
    /\ \/ run_pc = "start"
       \/ run_pc = "extract" /\ file_index \in 1..Len(pdf_files)
       \/ /\ run_pc = "request"
          /\ file_index \in 1..Len(pdf_files)
          /\ request.state = "active"
          /\ request.attempt <= request.max_retries

RunEndsProperly ==
    IF RunEnded
    THEN (run_pc = "returned" /\ ReturnedFullResult) \/ (run_pc = "raised" /\ RaisedAnalysisFailed)
    ELSE RunCanGoOn

\* an upper bound of the number of steps the run can still take: one extraction
\* and max_retries + 1 attempts for each file not yet done with
StepsLeft ==
    CASE run_pc = "start" -> (MaxFiles + 1) * (anthropic_max_retries + 2) + 1
      [] run_pc = "extract" ->
            (Len(pdf_files) - file_index + 1) * (anthropic_max_retries + 2)
      [] run_pc = "request" ->
            (Len(pdf_files) - file_index) * (anthropic_max_retries + 2)
                + (request.max_retries + 1 - request.attempt)
      [] OTHER -> 0

RunGetsCloserToItsEnd == StepsLeft' < StepsLeft /\ StepsLeft' >= 0

\* C18: every call of analyze_directory_complete ends (each step leaves fewer steps
\* to take, and before the end a step can be taken), and in one of two ways: it
\* returns a result with success true carrying main_contract, a non-empty
\* ranked_documents list, stats, classification_summary and failed_files, or it
\* raises DirectoryAnalyzerException with a reason message; no other exception
\* escapes and no result with an empty ranked list is returned.
C18_ReturnsResultOrRaises == []RunEndsProperly /\ [][RunGetsCloserToItsEnd]_vars

\* a run that returned a result without main contract and with a failed file
C18_Witness ==
    /\ run_pc = "returned"
    /\ ReturnedFullResult
    /\ main_contract = <<>>
    /\ failed_files # <<>>

-----------------------------------------------------------------------------
\* the k-th attempt of the current request was followed by a wait and a retry
RetriedAfter(k) == k <= Len(request.sleeps)

\* C19: the wait before the next attempt after the failed attempt number a (from 0,
\* a < max_retries) is 5 x 2^a seconds after an HTTP 529, 30 + 10 x a seconds after
\* an HTTP 429 and 5 seconds after a timeout; a is the index of the attempt in the
\* whole request, whatever the earlier failures were.
C19_WaitTimes ==
    /\ Len(request.sleeps) <= Len(request.responses)
    /\ \A k \in 1..Len(request.sleeps) :
          /\ k - 1 < request.max_retries
          /\ request.responses[k].kind = "response" /\ request.responses[k].status = 529 =>
                request.sleeps[k] = 5 * 2 ^ (k - 1)
          /\ request.responses[k].kind = "response" /\ request.responses[k].status = 429 =>
                request.sleeps[k] = 30 + 10 * (k - 1)
          /\ request.responses[k].kind = "timeout" => request.sleeps[k] = 5
    /\ \A k \in 1..Len(request.responses) :
          ( /\ k - 1 < request.max_retries
            /\ \/ request.responses[k].kind = "timeout"
               \/ /\ request.responses[k].kind = "response"
                  /\ request.responses[k].status \in {529, 429} )
          => RetriedAfter(k)

\* a timeout at attempt 0 then a 429 at attempt 1: the waits are 5 and 40 seconds,
\* the second one counted from the attempt index 1 although it is the first 429
C19_Witness ==
    /\ Len(request.sleeps) = 2
    /\ request.responses[1].kind = "timeout"
    /\ request.responses[2].kind = "response" /\ request.responses[2].status = 429
    /\ request.sleeps = <<5, 40>>

-----------------------------------------------------------------------------
LastOutcome == request.responses[Len(request.responses)]

\* the request gave up on a transient failure at its last allowed attempt
RetriesExhausted ==
    /\ request.state = "raised"
    /\ Len(request.responses) = request.max_retries + 1
    /\ \/ LastOutcome.kind \in {"timeout", "request_exception"}
       \/ LastOutcome.kind = "response" /\ LastOutcome.status \in {529, 429}

\* C20: whenever _make_api_request gives up because all retries are used, whatever
\* the last transient failure was (529, 429, timeout, connection error), the
\* failure it raises carries the number of attempts made and the status code of the
\* last response.
C20_ExhaustionCarriesStatusAndAttempts ==
    RetriesExhausted =>
        /\ request.exception[1].type = "AIClassificationError"
        /\ request.exception[1].attempts = <<Len(request.responses)>>
        /\ LastOutcome.kind = "response" =>
              request.exception[1].status_code = <<LastOutcome.status>>

-----------------------------------------------------------------------------
\* C21: classify_document never raises: when the oracle request or the reading of
\* its response fails, it returns a record with document_type ERROR, confidence
\* LOW, the error text in summary and an error field, which joins the
\* classifications while the run goes on; the record returned after a successful
\* oracle call has no error field.
C21_ClassifyNeverRaises ==
    RequestEnded =>
        /\ run_pc \in {"extract", "returned"}
        /\ classifications # <<>>
        /\ LastClassification.filename = pdf_files[Len(classifications) + Len(failed_files)]
        /\ IF request.state = "raised"
           THEN /\ LastClassification.document_type = "ERROR"
                /\ LastClassification.confidence = "LOW"
                /\ LastClassification.error = <<request.exception[1].message>>
                /\ LastClassification.error[1] # ""
                /\ LastClassification.summary
                      = <<"Classification failed: ", request.exception[1].message>>
           ELSE LastClassification.error = <<>>

\* the response of a 200 could not be read (no content[0].text): the record of the
\* document is an ERROR record
C21_Witness ==
    /\ request.state = "raised"
    /\ request.exception[1].type = "KeyError"
    /\ LastClassification.document_type = "ERROR"
    /\ LastClassification.error # <<>>

-----------------------------------------------------------------------------
\* a step that records a failed file is a step of the extraction, taken before any
\* request of the document, and it starts no request
FailureRecordedWithoutRequest ==
    Len(failed_files') > Len(failed_files) =>
        /\ run_pc = "extract"
        /\ request' = NoRequest
        /\ Len(failed_files') = Len(failed_files) + 1
        /\ failed_files'[Len(failed_files')].filename = pdf_files[file_index]
        /\ classifications' = classifications \/ RunEnded'

\* the classifier is called only with a text of at least 50 characters
ClassifierCalledOnSufficientText ==
    request.state # "none" => request.text_length >= 50

\* C22: a document whose extracted text is empty or shorter than 50 characters is
\* recorded in failed_files and no request is made for it; the classifier is called
\* only for documents whose text has at least 50 characters.
C22_ShortTextSkipsClassifier ==
    []ClassifierCalledOnSufficientText /\ [][FailureRecordedWithoutRequest]_vars

\* the second document of a run was recorded as having too short a text, after the
\* first one went to the classifier
C22_Witness ==
    /\ Len(pdf_files) = 2
    /\ Len(failed_files) = 1
    /\ failed_files[1].reason = "Insufficient text extracted"
    /\ failed_files[1].filename = pdf_files[2]
    /\ Len(classifications) = 1
    /\ request = NoRequest

-----------------------------------------------------------------------------
RECURSIVE TotalOver(_, _)
\* the sum of the counts of a frequency table over the keys S
TotalOver(table, S) ==
    IF S = {} THEN 0
    ELSE table[CHOOSE v \in S : TRUE] + TotalOver(table, S \ {CHOOSE v \in S : TRUE})

\* the table counts, for each value of the key, the classifications without error
\* that carry it, and nothing else
CountsNonErrors(table, key) ==
    /\ DOMAIN table = {classifications[k][key] : k \in NonErrors}
    /\ \A v \in DOMAIN table :
          table[v] = Cardinality({k \in NonErrors : classifications[k][key] = v})
    /\ TotalOver(table, DOMAIN table) = Cardinality(NonErrors)

\* C23: each of the four frequency tables of the summary (type, importance, status,
\* recommendation) counts exactly the classifications that carry no error: an error
\* classification adds to no table and the counts of each table sum to the number
\* of non-error classifications.
C23_SummaryCountsNonErrors ==
    run_pc = "returned" =>
        /\ CountsNonErrors(run_result.result[1].classification_summary.by_type, "document_type")
        /\ CountsNonErrors(run_result.result[1].classification_summary.by_importance, "importance")
        /\ CountsNonErrors(run_result.result[1].classification_summary.by_status, "status")
        /\ CountsNonErrors(run_result.result[1].classification_summary.recommendations,
                           "recommendation")

\* a returned run with one error classification and one without error, both with
\* status UNKNOWN: the table by status counts one
C23_Witness ==
    /\ run_pc = "returned"
    /\ Len(classifications) = 2
    /\ Cardinality(NonErrors) = 1
    /\ \A k \in 1..2 : classifications[k].status = "UNKNOWN"
    /\ run_result.result[1].classification_summary.by_status["UNKNOWN"] = 1

-----------------------------------------------------------------------------
(* Helpers called on their own: specification SpecHelpers *)

\* mutant of determine_identification_confidence: the thresholds are inclusive
determine_identification_confidence_inclusive(contract) ==
    IF contract = <<>> THEN "LOW"
    ELSE IF /\ (IF contract[1].importance_score = <<>> THEN 0
                ELSE contract[1].importance_score[1]) >= 120
            /\ contract[1].document_type = "PRIMARY_CONTRACT"
            /\ (IF contract[1].confidence = <<>> THEN "MEDIUM"
                ELSE contract[1].confidence[1]) = "HIGH"
    THEN "HIGH"
    ELSE IF /\ (IF contract[1].importance_score = <<>> THEN 0
                ELSE contract[1].importance_score[1]) >= 80
            /\ contract[1].document_type = "PRIMARY_CONTRACT"
    THEN "MEDIUM"
    ELSE "LOW"

\* _determine_identification_confidence; contract (main_contract) is <<>> for None, and the
\* keys importance_score and confidence of the dict may be absent
determine_identification_confidence(contract) ==
    IF contract = <<>> THEN "LOW"
    ELSE IF /\ (IF contract[1].importance_score = <<>> THEN 0
                ELSE contract[1].importance_score[1]) > 120
            /\ contract[1].document_type = "PRIMARY_CONTRACT"
            /\ (IF contract[1].confidence = <<>> THEN "MEDIUM"
                ELSE contract[1].confidence[1]) = "HIGH"
    THEN "HIGH"
    ELSE IF /\ (IF contract[1].importance_score = <<>> THEN 0
                ELSE contract[1].importance_score[1]) > 80
            /\ contract[1].document_type = "PRIMARY_CONTRACT"
    THEN "MEDIUM"
    ELSE "LOW"

\* scores around the two thresholds
ScoreSamples == {0, 80, 81, 120, 121, 148}

ConfidenceValues == {"HIGH", "MEDIUM", "LOW"}

\* the main contracts handed to _determine_identification_confidence
MainContractInputs ==
    {<<>>} \cup
    {<<[importance_score |-> s, document_type |-> t, confidence |-> c]>> :
        s \in {<<>>} \cup {<<n>> : n \in ScoreSamples},
        t \in DocumentTypes,
        c \in {<<>>} \cup {<<v>> : v \in ConfidenceValues}}

\* filenames with every indicator and two version tiers, with two version tiers
\* only, with a draft indicator only, and with none
ScoringFilenames ==
    { <<"F","i","n","a","l","_","c","l","e","a","n","_","r","1","_","R","3","_",
        "c","t","d","o","t","_","d","r","a","f","t">>,
      <<"r","e","v","2","_","r","1",".","p","d","f">>,
      <<"D","r","a","f","t",".","p","d","f">>,
      <<"a",".","p","d","f">> }

ScoringImportances == {"CRITICAL", "HIGH", "MEDIUM", "LOW", "high"}

ScoringTypes ==
    {"PRIMARY_CONTRACT", "CHANGE_ORDER", "AMENDMENT", "LETTER_OF_INTENT", "INSURANCE_DOCUMENT",
     "SCHEDULE", "CORRESPONDENCE", "PROPOSAL", "INVOICE", "UNKNOWN"}

ScoringStatuses == {"EXECUTED_SIGNED", "DRAFT_UNSIGNED", "PROPOSAL", "UNKNOWN"}

\* text lengths on both sides of the three steps
ScoringTextLengths == {0, 20000, 20001, 50000, 50001, 100000, 100001}

\* the classification records handed to score_document_importance
ScoringRecords ==
    {ParsedClassification(f, t, i, s, c, "REVIEW_MANUALLY", n) :
        f \in ScoringFilenames, t \in ScoringTypes, i \in ScoringImportances,
        s \in ScoringStatuses, c \in ConfidenceValues, n \in ScoringTextLengths}

-----------------------------------------------------------------------------
(* _parse_classification_response *)

\* str.upper() on the letters of the model
UpperChar(c) ==
    IF \E i \in 1..Len(LowerChars) : LowerChars[i] = c
    THEN UpperChars[CHOOSE i \in 1..Len(LowerChars) : LowerChars[i] = c]
    ELSE c

RECURSIVE upper(_)
upper(s) == IF s = <<>> THEN <<>> ELSE <<UpperChar(Head(s))>> \o upper(Tail(s))

Whitespace == {" ", "\t", "\r", "\n"}

RECURSIVE lstrip(_)
lstrip(s) == IF s # <<>> /\ Head(s) \in Whitespace THEN lstrip(Tail(s)) ELSE s

RECURSIVE rstrip(_)
rstrip(s) ==
    IF s # <<>> /\ s[Len(s)] \in Whitespace THEN rstrip(SubSeq(s, 1, Len(s) - 1)) ELSE s

\* str.strip()
strip(s) == rstrip(lstrip(s))

\* the position of the first c in s, 0 when there is none
IndexOf(c, s) ==
    IF \E i \in 1..Len(s) : s[i] = c
    THEN CHOOSE i \in 1..Len(s) : s[i] = c /\ \A j \in 1..(i - 1) : s[j] # c
    ELSE 0

\* response.split("\n")
RECURSIVE split_lines(_)
split_lines(s) ==
    IF IndexOf("\n", s) = 0 THEN <<s>>
    ELSE <<SubSeq(s, 1, IndexOf("\n", s) - 1)>>
         \o split_lines(SubSeq(s, IndexOf("\n", s) + 1, Len(s)))

\* the fields of the elif chain of _parse_classification_response, in its order,
\* with the text looked for in the key
parser_fields ==
    << [field |-> "document_type", key |-> <<"D","O","C","U","M","E","N","T","_","T","Y","P","E">>],
       [field |-> "importance", key |-> <<"I","M","P","O","R","T","A","N","C","E">>],
       [field |-> "status", key |-> <<"S","T","A","T","U","S">>],
       [field |-> "key_parties", key |-> <<"K","E","Y","_","P","A","R","T","I","E","S">>],
       [field |-> "dollar_amount", key |-> <<"D","O","L","L","A","R","_","A","M","O","U","N","T">>],
       [field |-> "project_info", key |-> <<"P","R","O","J","E","C","T","_","I","N","F","O">>],
       [field |-> "confidence", key |-> <<"C","O","N","F","I","D","E","N","C","E">>],
       [field |-> "summary", key |-> <<"S","U","M","M","A","R","Y">>],
       [field |-> "recommendation", key |-> <<"R","E","C","O","M","M","E","N","D","A","T","I","O","N">>] >>

\* the dict `result` before the loop
DefaultClassification(filename) ==
    [filename |-> filename,
     document_type |-> <<"U","N","K","N","O","W","N">>,
     importance |-> <<"M","E","D","I","U","M">>,
     status |-> <<"U","N","K","N","O","W","N">>,
     key_parties |-> <<>>,
     dollar_amount |-> <<"N","O","N","E">>,
     project_info |-> <<>>,
     confidence |-> <<"M","E","D","I","U","M">>,
     summary |-> <<>>,
     recommendation |-> <<"R","E","V","I","E","W","_","M","A","N","U","A","L","L","Y">>]

\* the first branch of the elif chain whose text is in the key: <<k>>, or <<>>
FieldOfKey(key) ==
    IF \E k \in 1..Len(parser_fields) : Contains(parser_fields[k].key, key)
    THEN <<(CHOOSE k \in 1..Len(parser_fields) :
                /\ Contains(parser_fields[k].key, key)
                /\ \A j \in 1..(k - 1) : ~Contains(parser_fields[j].key, key))>>
    ELSE <<>>

\* result[field] = value in the branch found
WithField(result, branch, value) ==
    IF branch = <<>> THEN result
    ELSE [result EXCEPT ![parser_fields[branch[1]].field] = value]

\* key, value = line.split(":", 1), at the first colon, which is at position colon
ParsedAtColon(result, line, colon) ==
    WithField(result, FieldOfKey(upper(strip(SubSeq(line, 1, colon - 1)))),
              strip(SubSeq(line, colon + 1, Len(line))))

\* one pass of `for line in response.split("\n")`
ParsedLine(result, line) ==
    IF IndexOf(":", line) = 0 THEN result
    ELSE ParsedAtColon(result, line, IndexOf(":", line))

RECURSIVE ParsedLines(_, _, _)
ParsedLines(result, lines, n) ==
    IF n = 0 THEN result ELSE ParsedLine(ParsedLines(result, lines, n - 1), lines[n])

\* _parse_classification_response
parse_classification_response(response, filename) ==
    ParsedLines(DefaultClassification(filename), split_lines(response),
                Len(split_lines(response)))

\* lines of an oracle response: of the format, with a key in lower case and
\* blanks, with a key that holds a field name, with an unknown key, without a
\* colon, and with a colon in the value
ResponseLines ==
    { <<"D","O","C","U","M","E","N","T","_","T","Y","P","E",":"," ","A","M","E","N","D","M","E","N","T">>,
      <<" ","i","m","p","o","r","t","a","n","c","e"," ",":"," "," ","H","I","G","H"," ">>,
      <<"S","T","A","T","U","S",":"," ","E","X","E","C","U","T","E","D","_","S","I","G","N","E","D">>,
      <<"P","a","y","m","e","n","t"," ","s","t","a","t","u","s",":"," ","o","v","e","r","d","u","e">>,
      <<"N","O","T","E","S",":"," ","n","o","n","e">>,
      <<"n","/","a">>,
      <<"S","U","M","M","A","R","Y",":"," ","a",":"," ","b">> }

\* "\n".join(lines)
RECURSIVE JoinLines(_)
JoinLines(lines) ==
    IF lines = <<>> THEN <<>>
    ELSE IF Len(lines) = 1 THEN lines[1]
    ELSE lines[1] \o <<"\n">> \o JoinLines(Tail(lines))

\* the oracle responses handed to _parse_classification_response
Responses ==
    {JoinLines(lines) : lines \in UNION {[1..n -> ResponseLines] : n \in 0..MaxLines}}

-----------------------------------------------------------------------------
(* The calls of the helpers *)

HelperCalls ==
    {[name |-> "_determine_identification_confidence", args |-> <<m>>, result |-> <<>>] :
        m \in MainContractInputs}
    \cup {[name |-> "score_document_importance", args |-> <<c>>, result |-> <<>>] :
              c \in ScoringRecords}
    \cup {[name |-> "_parse_classification_response",
            args |-> <<r, <<"a",".","p","d","f">> >>, result |-> <<>>] : r \in Responses}

InitHelpers ==
    /\ classifications = <<>>
    /\ main_contract = <<>>
    /\ ranked_documents = <<>>
    /\ last_call = "none"
    /\ anthropic_max_retries = 3
    /\ pdf_files = <<>>
    /\ file_index = 0
    /\ failed_files = <<>>
    /\ request = NoRequest
    /\ run_pc = "idle"
    /\ run_result = NoResult
    /\ helper_call \in HelperCalls

HelperReturns(value) ==
    /\ helper_call.result = <<>>
    /\ helper_call' = [helper_call EXCEPT !.result = <<value>>]
    /\ UNCHANGED <<analyzerVars, anthropic_max_retries, pdf_files, file_index, failed_files,
                   request, run_pc, run_result>>

DetermineIdentificationConfidence ==
    /\ helper_call.name = "_determine_identification_confidence"
    /\ HelperReturns(determine_identification_confidence(helper_call.args[1]))

ScoreDocumentImportance ==
    /\ helper_call.name = "score_document_importance"
    /\ HelperReturns(score_document_importance(helper_call.args[1]))

ParseClassificationResponse ==
    /\ helper_call.name = "_parse_classification_response"
    /\ HelperReturns(parse_classification_response(helper_call.args[1], helper_call.args[2]))

NextHelpers ==
    \/ DetermineIdentificationConfidence
    \/ ScoreDocumentImportance
    \/ ParseClassificationResponse

SpecHelpers == InitHelpers /\ [][NextHelpers]_vars

-----------------------------------------------------------------------------
(* Vocabulary of the properties of the helpers *)

HelperReturned(name) == helper_call.name = name /\ helper_call.result # <<>>

\* the values _determine_identification_confidence reads from its argument
GivenScore ==
    IF helper_call.args[1][1].importance_score = <<>> THEN 0
    ELSE helper_call.args[1][1].importance_score[1]

GivenConfidence ==
    IF helper_call.args[1][1].confidence = <<>> THEN "MEDIUM"
    ELSE helper_call.args[1][1].confidence[1]

QualifiesForHigh ==
    /\ helper_call.args[1] # <<>>
    /\ GivenScore > 120
    /\ helper_call.args[1][1].document_type = "PRIMARY_CONTRACT"
    /\ GivenConfidence = "HIGH"

QualifiesForMedium ==
    /\ helper_call.args[1] # <<>>
    /\ GivenScore > 80
    /\ helper_call.args[1][1].document_type = "PRIMARY_CONTRACT"

\* C24: the confidence label of the quick-identify mode is HIGH exactly when the
\* main contract has score > 120, type PRIMARY_CONTRACT and oracle confidence HIGH;
\* otherwise MEDIUM exactly when it has score > 80 and type PRIMARY_CONTRACT;
\* otherwise LOW; scores of exactly 120 and 80 do not qualify.
C24_ConfidenceLabel ==
    HelperReturned("_determine_identification_confidence") =>
        /\ helper_call.result[1] = "HIGH" <=> QualifiesForHigh
        /\ helper_call.result[1] = "MEDIUM" <=> (~QualifiesForHigh /\ QualifiesForMedium)
        /\ helper_call.result[1] = "LOW" <=> (~QualifiesForHigh /\ ~QualifiesForMedium)

\* a PRIMARY_CONTRACT of oracle confidence HIGH with a score of exactly 120 is
\* labelled MEDIUM
C24_Witness ==
    /\ HelperReturned("_determine_identification_confidence")
    /\ helper_call.args[1] # <<>>
    /\ GivenScore = 120
    /\ helper_call.args[1][1].document_type = "PRIMARY_CONTRACT"
    /\ GivenConfidence = "HIGH"
    /\ helper_call.result[1] = "MEDIUM"

-----------------------------------------------------------------------------
(* rank_documents on lists long enough for a rank above 3: specification
   SpecRanking *)

\* four primary contracts of different filenames and two amendments, with and
\* without the recommendation ANALYZE_FULLY
RankingRecords ==
    {ParsedClassification(<<"F","i","n","a","l",".","p","d","f">>, "PRIMARY_CONTRACT", "HIGH",
                          "UNKNOWN", "MEDIUM", "REVIEW_MANUALLY", n) : n \in TextLengths}
    \cup {ParsedClassification(<<"c","l","e","a","n",".","p","d","f">>, "PRIMARY_CONTRACT", "HIGH",
                               "UNKNOWN", "MEDIUM", "ANALYZE_FULLY", n) : n \in TextLengths}
    \cup {ParsedClassification(<<"A","g","r","e","e","m","e","n","t","_","r","2",".","p","d","f">>,
                               "PRIMARY_CONTRACT", "HIGH", "UNKNOWN", "MEDIUM",
                               "REVIEW_MANUALLY", n) : n \in TextLengths}
    \cup {ParsedClassification(<<"a",".","p","d","f">>, "PRIMARY_CONTRACT", "HIGH", "UNKNOWN",
                               "MEDIUM", "ANALYZE_FULLY", n) : n \in TextLengths}
    \cup {ParsedClassification(<<"a",".","p","d","f">>, "AMENDMENT", "HIGH", "UNKNOWN",
                               "MEDIUM", r, n) :
              r \in {"ANALYZE_FULLY", "REVIEW_MANUALLY"}, n \in TextLengths}

RankingLists == UNION {[1..n -> RankingRecords] : n \in 0..MaxRankDocs}

InitRanking ==
    /\ classifications \in RankingLists
    /\ main_contract = <<>>
    /\ ranked_documents = <<>>
    /\ last_call = "none"
    /\ anthropic_max_retries = 3
    /\ pdf_files = <<>>
    /\ file_index = 0
    /\ failed_files = <<>>
    /\ request = NoRequest
    /\ run_pc = "idle"
    /\ run_result = NoResult
    /\ helper_call = NoHelperCall

NextRanking == RankDocuments

SpecRanking == InitRanking /\ [][NextRanking]_vars

\* the priority level that the precedence main contract, primary contract of
\* rank at most 3, recommendation ANALYZE_FULLY gives to the k-th ranked document
PriorityByPrecedence(k) ==
    IF ranked_documents[k].is_main_contract = "True" THEN "MAIN_CONTRACT"
    ELSE IF ranked_documents[k].document_type = "PRIMARY_CONTRACT" /\ k <= 3
    THEN "HIGH_PRIORITY"
    ELSE IF ranked_documents[k].recommendation = "ANALYZE_FULLY"
    THEN "ANALYZE_RECOMMENDED"
    ELSE "SUPPORTING_DOCUMENT"

\* C25: the priority_level of a ranked document is MAIN_CONTRACT if it is the main
\* contract, else HIGH_PRIORITY if it is a PRIMARY_CONTRACT of rank at most 3, else
\* ANALYZE_RECOMMENDED if its recommendation is ANALYZE_FULLY, else
\* SUPPORTING_DOCUMENT; it is MAIN_CONTRACT exactly when is_main_contract is true.
C25_PriorityPrecedence ==
    RankReturned =>
        \A k \in 1..Len(ranked_documents) :
            /\ ranked_documents[k].priority_level = PriorityByPrecedence(k)
            /\ ranked_documents[k].priority_level = "MAIN_CONTRACT"
                   <=> ranked_documents[k].is_main_contract = "True"

\* a primary contract of rank 4 that is not the main contract and is recommended
\* for full analysis is ANALYZE_RECOMMENDED, next to a HIGH_PRIORITY one of rank 2
C25_Witness ==
    /\ RankReturned
    /\ Len(ranked_documents) = 4
    /\ ranked_documents[4].document_type = "PRIMARY_CONTRACT"
    /\ ranked_documents[4].is_main_contract = "False"
    /\ ranked_documents[4].priority_level = "ANALYZE_RECOMMENDED"
    /\ ranked_documents[2].priority_level = "HIGH_PRIORITY"
    /\ ranked_documents[1].priority_level = "MAIN_CONTRACT"


\* the record handed to score_document_importance and its filename in lower case
ScoredRecord == helper_call.args[1]

ScoredFilename == lower(ScoredRecord.filename)

HasAnyOf(words) == \E w \in words : Contains(w, ScoredFilename)

\* B: by importance
ClaimedBase ==
    CASE ScoredRecord.importance = "CRITICAL" -> 100
      [] ScoredRecord.importance = "HIGH" -> 70
      [] ScoredRecord.importance = "MEDIUM" -> 40
      [] ScoredRecord.importance = "LOW" -> 20
      [] OTHER -> 40

\* T: by document type
ClaimedType ==
    CASE ScoredRecord.document_type = "PRIMARY_CONTRACT" -> 50
      [] ScoredRecord.document_type = "CHANGE_ORDER" -> 30
      [] ScoredRecord.document_type = "AMENDMENT" -> 25
      [] ScoredRecord.document_type = "LETTER_OF_INTENT" -> 20
      [] ScoredRecord.document_type = "INSURANCE_DOCUMENT" -> 15
      [] ScoredRecord.document_type \in {"SCHEDULE", "CORRESPONDENCE"} -> 10
      [] ScoredRecord.document_type \in {"PROPOSAL", "INVOICE"} -> 5
      [] OTHER -> 0

\* S: by status
ClaimedStatus ==
    CASE ScoredRecord.status = "EXECUTED_SIGNED" -> 30
      [] ScoredRecord.status = "DRAFT_UNSIGNED" -> 10
      [] ScoredRecord.status = "PROPOSAL" -> 5
      [] OTHER -> 0

\* the version bonus of the highest tier that has a pattern in the filename
ClaimedVersion ==
    IF HasAnyOf({<<"r","3">>, <<"r","e","v","3">>, <<"r","e","v","i","s","i","o","n"," ","3">>})
    THEN 22
    ELSE IF HasAnyOf({<<"r","2">>, <<"r","e","v","2">>,
                      <<"r","e","v","i","s","i","o","n"," ","2">>})
    THEN 18
    ELSE IF HasAnyOf({<<"r","1">>, <<"r","e","v","1">>,
                      <<"r","e","v","i","s","i","o","n"," ","1">>})
    THEN 15
    ELSE 0

\* F: the independent filename bonuses and the single version bonus
ClaimedFilename ==
      (IF HasAnyOf({<<"e","x","e","c","u","t","e","d">>, <<"s","i","g","n","e","d">>,
                    <<"f","i","n","a","l">>}) THEN 25 ELSE 0)
    + (IF HasAnyOf({<<"c","l","e","a","n">>, <<"f","i","n","a","l"," ","c","o","p","y">>,
                    <<"e","x","e","c","u","t","e","d"," ","c","o","p","y">>}) THEN 20 ELSE 0)
    + (IF HasAnyOf({<<"c","o","n","t","r","a","c","t">>, <<"a","g","r","e","e","m","e","n","t">>,
                    <<"c","t","d","o","t">>}) THEN 10 ELSE 0)
    - (IF HasAnyOf({<<"m","a","r","k","u","p">>, <<"m","a","r","k"," ","u","p">>,
                    <<"d","r","a","f","t">>, <<"r","e","d","l","i","n","e">>,
                    <<"c","o","m","m","e","n","t","s">>}) THEN 10 ELSE 0)
    + ClaimedVersion

\* L: by text length
ClaimedLength ==
    IF ScoredRecord.text_length > 100000 THEN 15
    ELSE IF ScoredRecord.text_length > 50000 THEN 10
    ELSE IF ScoredRecord.text_length > 20000 THEN 5
    ELSE 0

\* C: by confidence
ClaimedConfidence ==
    IF ScoredRecord.confidence = "HIGH" THEN 5
    ELSE IF ScoredRecord.confidence = "LOW" THEN 0 - 5
    ELSE 0

ClaimedSum ==
    ClaimedBase + ClaimedType + ClaimedStatus + ClaimedFilename + ClaimedLength
    + ClaimedConfidence

\* C26: score_document_importance returns max(0, B + T + S + F + L + C), where the
\* version bonus in F is that of the highest matching tier only; the result is never
\* negative.
C26_ScoreIsFlooredSum ==
    HelperReturned("score_document_importance") =>
        /\ helper_call.result[1] = (IF ClaimedSum >= 0 THEN ClaimedSum ELSE 0)
        /\ helper_call.result[1] >= 0

\* a critical executed primary contract whose filename has every indicator, r1 and
\* r3: 100 + 50 + 30 + (25 + 20 + 10 - 10 + 22) + 15 + 5
C26_Witness ==
    /\ HelperReturned("score_document_importance")
    /\ HasAnyOf({<<"r","1">>})
    /\ HasAnyOf({<<"r","3">>})
    /\ ClaimedVersion = 22
    /\ helper_call.result[1] = 267


\* the lines of the response handed to _parse_classification_response
GivenLines == split_lines(helper_call.args[1])

\* the key of a line that has a colon, as the parser reads it
KeyOfLine(line) == upper(strip(SubSeq(line, 1, IndexOf(":", line) - 1)))

ValueOfLine(line) == strip(SubSeq(line, IndexOf(":", line) + 1, Len(line)))

\* the lines whose key is the k-th field name of the response format
LinesOfField(lines, k) ==
    {n \in 1..Len(lines) :
        IndexOf(":", lines[n]) # 0 /\ KeyOfLine(lines[n]) = parser_fields[k].key}

\* the value of the k-th field when only lines with that field name as key count:
\* the default without such a line, else the value of the last of them
ValueByFieldName(lines, k) ==
    IF LinesOfField(lines, k) = {}
    THEN DefaultClassification(helper_call.args[2])[parser_fields[k].field]
    ELSE ValueOfLine(lines[CHOOSE n \in LinesOfField(lines, k) :
                               \A m \in LinesOfField(lines, k) : m <= n])

EachFieldNameAtMostOnce(lines) ==
    \A k \in 1..Len(parser_fields) : Cardinality(LinesOfField(lines, k)) <= 1

\* the responses made of the same lines in another order
Reorderings(lines) ==
    {JoinLines(ListOf([n \in 1..Len(lines) |-> lines[p[n]]], Len(lines))) :
        p \in {q \in [1..Len(lines) -> 1..Len(lines)] :
                  \A a, b \in 1..Len(lines) : q[a] = q[b] => a = b}}

\* C27: a response line whose key is not one of the nine field names changes no
\* field, a field without a line keeps its default, and the result does not depend
\* on the order of the lines when each field name occurs at most once.
C27_OnlyFieldNameLinesCount ==
    HelperReturned("_parse_classification_response") =>
        /\ \A k \in 1..Len(parser_fields) :
               helper_call.result[1][parser_fields[k].field] = ValueByFieldName(GivenLines, k)
        /\ EachFieldNameAtMostOnce(GivenLines) =>
               \A r \in Reorderings(GivenLines) :
                   parse_classification_response(r, helper_call.args[2])
                       = helper_call.result[1]


\* C28: identify_main_contract and rank_documents leave every classification record
\* of their input list unchanged: after the call each record of the list has the
\* keys and values it had before.
C28_InputRecordsUnchanged == [][classifications' = classifications]_vars


-----------------------------------------------------------------------------
(* The analyzer called on lists that share records: specification
   SpecSharedRecords *)

\* records as classify_document returns them: two primary contracts, an amendment
\* and a failure
SharedRecords ==
    {ParsedClassification(f, "PRIMARY_CONTRACT", "HIGH", "UNKNOWN", "MEDIUM",
                          "REVIEW_MANUALLY", n) :
        f \in {<<"F","i","n","a","l",".","p","d","f">>, <<"a",".","p","d","f">>},
        n \in TextLengths}
    \cup {ParsedClassification(<<"c","l","e","a","n",".","p","d","f">>, "AMENDMENT", "HIGH",
                               "UNKNOWN", "MEDIUM", "REVIEW_MANUALLY", n) : n \in TextLengths}
    \cup {ErrorClassification(<<"a",".","p","d","f">>, e, n) :
              e \in ErrorTexts, n \in TextLengths}

InitSharedRecords ==
    /\ classifications \in UNION {[1..n -> SharedRecords] : n \in 0..MaxSharedDocs}
    /\ main_contract = <<>>
    /\ ranked_documents = <<>>
    /\ last_call = "none"
    /\ anthropic_max_retries = 3
    /\ pdf_files = <<>>
    /\ file_index = 0
    /\ failed_files = <<>>
    /\ request = NoRequest
    /\ run_pc = "idle"
    /\ run_result = NoResult
    /\ helper_call = NoHelperCall

\* the caller's next list: the same record objects and a new one
CallerAddsRecord ==
    /\ Len(classifications) < MaxSharedDocs
    /\ \E r \in SharedRecords : classifications' = Append(classifications, r)
    /\ UNCHANGED <<main_contract, ranked_documents, last_call, runVars>>

\* the caller's next list: the same record objects without the k-th
CallerDropsRecord ==
    /\ \E k \in 1..Len(classifications) :
           classifications' = SubSeq(classifications, 1, k - 1)
                              \o SubSeq(classifications, k + 1, Len(classifications))
    /\ UNCHANGED <<main_contract, ranked_documents, last_call, runVars>>

NextSharedRecords ==
    \/ IdentifyMainContract
    \/ RankDocuments
    \/ CallerAddsRecord
    \/ CallerDropsRecord

SpecSharedRecords == InitSharedRecords /\ [][NextSharedRecords]_vars

\* C29: in every list returned by rank_documents an entry carries a ranking_reason
\* if and only if its is_main_contract is true, also after earlier calls on other
\* lists that share records with this one.
C29_ReasonOnlyOnMainContract ==
    RankReturned =>
        \A k \in 1..Len(ranked_documents) :
            ranked_documents[k].ranking_reason # <<>>
                <=> ranked_documents[k].is_main_contract = "True"


-----------------------------------------------------------------------------
(* _make_api_request called with a max_retries argument: specification
   SpecRequest *)

\* the max_retries argument: <<>> for the default None, or a number
RetryArguments == {<<>>} \cup {<<k>> : k \in 0..MaxRetriesArgument}

InitRequest ==
    /\ classifications = <<>>
    /\ main_contract = <<>>
    /\ ranked_documents = <<>>
    /\ last_call = "none"
    /\ anthropic_max_retries \in 0..MaxRetriesSetting
    /\ pdf_files = <<>>
    /\ file_index = 0
    /\ failed_files = <<>>
    /\ run_pc = "idle"
    /\ run_result = NoResult
    /\ \E m \in RetryArguments, n \in TextLengths :
          /\ helper_call = [name |-> "_make_api_request", args |-> <<m>>, result |-> <<>>]
          /\ request = NewRequest(m, anthropic_max_retries, n)

\* the loop goes on with r, or the call has ended with r
RequestStep(r) ==
    /\ request' = r
    /\ helper_call' = IF r.state = "active" THEN helper_call
                      ELSE [helper_call EXCEPT !.result = <<r.state>>]
    /\ UNCHANGED <<analyzerVars, anthropic_max_retries, pdf_files, file_index, failed_files,
                   run_pc, run_result>>

\* one pass of the retry loop of the direct call
MakeApiRequestStep ==
    /\ helper_call.name = "_make_api_request"
    /\ request.state = "active"
    /\ \E outcome \in OracleOutcomes : RequestStep(MakeApiRequestAttempt(request, outcome))

NextRequest == MakeApiRequestStep

SpecRequest == InitRequest /\ [][NextRequest]_vars

\* the max_retries the caller asked for: the argument, or the setting when the
\* argument is left out
RequestedMaxRetries ==
    IF helper_call.args[1] = <<>> THEN anthropic_max_retries ELSE helper_call.args[1][1]

\* C30: for every max_retries >= 0 and every sequence of oracle outcomes,
\* _make_api_request makes at most max_retries + 1 HTTP attempts in all, whatever
\* the kinds of failure, has ended once they are made, and makes no attempt after
\* a 200 response.
C30_AtMostMaxRetriesPlusOneAttempts ==
    helper_call.name = "_make_api_request" =>
        /\ Len(request.responses) <= RequestedMaxRetries + 1
        /\ Len(request.responses) = RequestedMaxRetries + 1 => RequestEnded
        /\ \A k \in 1..(Len(request.responses) - 1) :
               ~(request.responses[k].kind = "response" /\ request.responses[k].status = 200)

====
